---- MODULE Spec2Model ----
(***************************************************************************)
(* ons::ONSFactoryProperty (src/src/main/cpp/ons/ONSFactoryProperty.cpp):  *)
(* a std::map<string,string> property store with a validated write, typed  *)
(* setters and getters, a bulk replace and a bootstrap load from           *)
(* <home>/ons/credential run by the constructor.                           *)
(*                                                                         *)
(* A std::string is modelled as a sequence of one-character strings, so    *)
(* that std::to_string / sprintf("%d") and absl::SimpleAtoi are computed   *)
(* digit by digit.  A 64-bit count (std::chrono::milliseconds::rep) is     *)
(* modelled as sign and two decimal limbs, [neg, hi, lo] standing for      *)
(* (+/-)(hi * Limb + lo), because it ranges beyond the 32-bit integers.    *)
(***************************************************************************)
EXTENDS Integers, Sequences, FiniteSets, TLC

VARIABLES property_map_, pc, lastCall, nops

vars == <<property_map_, pc, lastCall, nops>>

\* Number of calls made on a constructed object in one behaviour.
MaxOps == 2

----------------------------------------------------------------------------
\* Key names (ONSFactoryProperty.cpp:21-41).
LogPath == "LogPath"
ProducerId == "ProducerId"
ConsumerId == "ConsumerId"
GroupId == "GroupId"
AccessKey == "AccessKey"
SecretKey == "SecretKey"
MessageModel == "MessageModel"
SendMsgTimeoutMillis == "SendMsgTimeoutMillis"
SuspendTimeMillis == "SuspendTimeMillis"
SendMsgRetryTimes == "SendMsgRetryTimes"
MaxMsgCacheSize == "MaxMsgCacheSize"
NAMESRV_ADDR == "NAMESRV_ADDR"
OnsChannel == "OnsChannel"
OnsTraceSwitch == "OnsTraceSwitch"

\* String literals of the source, as character sequences.
EMPTY_STRING == <<>>
BROADCASTING == <<"B","R","O","A","D","C","A","S","T","I","N","G">>
CLUSTERING == <<"C","L","U","S","T","E","R","I","N","G">>
DEFAULT_CHANNEL == <<"A","L","I","Y","U","N">>
StrCLOUD == <<"C","L","O","U","D">>
StrALIYUN == <<"A","L","I","Y","U","N">>
StrALL == <<"A","L","L">>
StrLOCAL == <<"L","O","C","A","L">>
StrINNER == <<"I","N","N","E","R">>
StrTrue == <<"t","r","u","e">>
StrFalse == <<"f","a","l","s","e">>
Str1000 == <<"1","0","0","0">>

----------------------------------------------------------------------------
\* std::map operations.
EmptyMap == [k \in {} |-> EMPTY_STRING]

\* property_map_[key] = value
Put(m, key, value) == [k \in DOMAIN m \cup {key} |-> IF k = key THEN value ELSE m[k]]

\* The outcome of a call: the store it leaves and whether an
\* ONSClientException propagated to the caller.
Returned(m) == [map |-> m, threw |-> FALSE]
Thrown(m) == [map |-> m, threw |-> TRUE]

----------------------------------------------------------------------------
\* 64-bit counts and their decimal text.
Limb == 1000 * 1000

I64(neg, hi, lo) == [neg |-> neg, hi |-> hi, lo |-> lo]

\* A 32-bit int widened to a 64-bit count.
FromInt32(n) ==
  IF n >= 0 THEN I64(FALSE, n \div Limb, n % Limb)
  ELSE LET m == -(n + 1)
           l == (m % Limb) + 1
       IN I64(TRUE, (m \div Limb) + (l \div Limb), l % Limb)

\* std::chrono::seconds(s) converted to std::chrono::milliseconds.
SecondsToMillis(s) == I64(s < 0, ((IF s < 0 THEN -s ELSE s) * 1000) \div Limb,
                          ((IF s < 0 THEN -s ELSE s) * 1000) % Limb)

IsZero(d) == d.hi = 0 /\ d.lo = 0

DigitChar(n) ==
  CASE n = 0 -> "0" [] n = 1 -> "1" [] n = 2 -> "2" [] n = 3 -> "3"
    [] n = 4 -> "4" [] n = 5 -> "5" [] n = 6 -> "6" [] n = 7 -> "7"
    [] n = 8 -> "8" [] n = 9 -> "9"

\* The decimal digits of n >= 0, most significant first, no padding.
RECURSIVE Digits(_)
Digits(n) == IF n < 10 THEN <<DigitChar(n)>>
             ELSE Append(Digits(n \div 10), DigitChar(n % 10))

\* The decimal digits of n >= 0 padded with zeros to w digits.
RECURSIVE Padded(_, _)
Padded(n, w) == IF w = 0 THEN <<>>
                ELSE Append(Padded(n \div 10, w - 1), DigitChar(n % 10))

LimbDigits == Len(Digits(Limb)) - 1

\* std::to_string(long long) / sprintf("%d").
to_string(d) ==
  (IF d.neg THEN <<"-">> ELSE <<>>) \o
  (IF d.hi = 0 THEN Digits(d.lo) ELSE Digits(d.hi) \o Padded(d.lo, LimbDigits))

----------------------------------------------------------------------------
\* absl::SimpleAtoi(text, std::int32_t*): safe_strto32_base in base 10.
Int32Max == 2147483647
Int32Min == -Int32Max - 1

IsSpace(c) == c \in {" ", "\t", "\n", "\r"}
IsDigit(c) == c \in {"0","1","2","3","4","5","6","7","8","9"}
DigitVal(c) ==
  CASE c = "0" -> 0 [] c = "1" -> 1 [] c = "2" -> 2 [] c = "3" -> 3
    [] c = "4" -> 4 [] c = "5" -> 5 [] c = "6" -> 6 [] c = "7" -> 7
    [] c = "8" -> 8 [] c = "9" -> 9

RECURSIVE StripLeading(_)
StripLeading(s) == IF s # <<>> /\ IsSpace(Head(s)) THEN StripLeading(Tail(s)) ELSE s
RECURSIVE StripTrailing(_)
StripTrailing(s) ==
  IF s # <<>> /\ IsSpace(s[Len(s)]) THEN StripTrailing(SubSeq(s, 1, Len(s) - 1)) ELSE s

ParseFail == [ok |-> FALSE, value |-> 0]

\* safe_parse_positive_int: accumulate, failing on a non-digit and before
\* the accumulator would pass vmax.
RECURSIVE safe_parse_positive_int(_, _)
safe_parse_positive_int(s, value) ==
  IF s = <<>> THEN [ok |-> TRUE, value |-> value]
  ELSE IF ~IsDigit(Head(s)) THEN ParseFail
  ELSE IF value > Int32Max \div 10 THEN ParseFail
  ELSE IF value * 10 > Int32Max - DigitVal(Head(s)) THEN ParseFail
  ELSE safe_parse_positive_int(Tail(s), value * 10 + DigitVal(Head(s)))

\* safe_parse_negative_int: the same downwards, against vmin.
RECURSIVE safe_parse_negative_int(_, _)
safe_parse_negative_int(s, value) ==
  IF s = <<>> THEN [ok |-> TRUE, value |-> value]
  ELSE IF ~IsDigit(Head(s)) THEN ParseFail
  ELSE IF value < -(Int32Max \div 10) THEN ParseFail
  ELSE IF value * 10 < Int32Min + DigitVal(Head(s)) THEN ParseFail
  ELSE safe_parse_negative_int(Tail(s), value * 10 - DigitVal(Head(s)))

\* safe_parse_sign_and_base, then the parse of the digits.
SimpleAtoi(text) ==
  LET t == StripTrailing(StripLeading(text))
      negative == t # <<>> /\ Head(t) = "-"
      signed == t # <<>> /\ Head(t) \in {"-", "+"}
      body == IF signed THEN Tail(t) ELSE t
  IN IF t = <<>> \/ body = <<>> THEN ParseFail
     ELSE IF negative THEN safe_parse_negative_int(body, 0)
     ELSE safe_parse_positive_int(body, 0)

----------------------------------------------------------------------------
\* Faulty variant: validate without the AccessKey rule.
validate_NoAccessKeyRule(key, value) ==
  /\ (key = MessageModel => ~(value # BROADCASTING /\ value # CLUSTERING))
  /\ (key = SecretKey => value # EMPTY_STRING)

\* Faulty variant: validate without the SecretKey rule.
validate_NoSecretKeyRule(key, value) ==
  /\ (key = MessageModel => ~(value # BROADCASTING /\ value # CLUSTERING))
  /\ (key = AccessKey => value # EMPTY_STRING)

\* ONSFactoryProperty::validate: TRUE when it returns true, FALSE when it
\* throws ONSClientException.
validate(key, value) ==
  /\ (key = MessageModel => ~(value # BROADCASTING /\ value # CLUSTERING))
  /\ (key = AccessKey => value # EMPTY_STRING)
  /\ (key = SecretKey => value # EMPTY_STRING)

\* Faulty variant: setFactoryProperty that stores the value before validating it.
setFactoryProperty_StoreBeforeValidate(m, key, value) ==
  IF validate(key, value) THEN Returned(Put(m, key, value)) ELSE Thrown(Put(m, key, value))

\* ONSFactoryProperty::setFactoryProperty on the store m.
setFactoryProperty(m, key, value) ==
  IF validate(key, value) THEN Returned(Put(m, key, value)) ELSE Thrown(m)

\* ONSFactoryProperty::setFactoryProperties: the store becomes the argument.
setFactoryProperties(m, factory_properties) == Returned(factory_properties)

\* getProperty(key) has a value / getProperty(key, default_value).
HasProperty(m, key) == key \in DOMAIN m
getProperty(m, key, default_value) == IF key \in DOMAIN m THEN m[key] ELSE default_value

----------------------------------------------------------------------------
\* Typed setters, each as its effect on the store m.  Enum arguments are the
\* variant names; "INVALID" stands for a value outside the enum's variants.
MessageModels == {"CLUSTERING", "BROADCASTING"}
ONSChannels == {"CLOUD", "ALIYUN", "ALL", "LOCAL", "INNER"}
Traces == {"ON", "OFF"}

setMessageModel(m, message_model) ==
  CASE message_model = "CLUSTERING" -> setFactoryProperty(m, MessageModel, CLUSTERING)
    [] message_model = "BROADCASTING" -> setFactoryProperty(m, MessageModel, BROADCASTING)
    [] OTHER -> Returned(m)

setSendMsgTimeoutInt(m, value) ==
  setFactoryProperty(m, SendMsgTimeoutMillis, to_string(FromInt32(value)))

setSendMsgTimeout(m, timeout) ==
  setFactoryProperty(m, SendMsgTimeoutMillis, to_string(timeout))

setSendMsgRetryTimes(m, value) ==
  setFactoryProperty(m, SendMsgRetryTimes, to_string(FromInt32(value)))

setMaxMsgCacheSize(m, value) ==
  setFactoryProperty(m, MaxMsgCacheSize, to_string(FromInt32(value)))

withTraceFeature(m, trace_flag) ==
  CASE trace_flag = "ON" -> setFactoryProperty(m, OnsTraceSwitch, StrTrue)
    [] trace_flag = "OFF" -> setFactoryProperty(m, OnsTraceSwitch, StrFalse)
    [] OTHER -> Returned(m)

setOnsTraceSwitch(m, should_trace) ==
  IF should_trace THEN setFactoryProperty(m, OnsTraceSwitch, StrTrue)
  ELSE setFactoryProperty(m, OnsTraceSwitch, StrFalse)

setOnsChannel(m, channel) ==
  IF channel = "CLOUD" THEN setFactoryProperty(m, OnsChannel, StrCLOUD)
  ELSE IF channel = "ALIYUN" THEN setFactoryProperty(m, OnsChannel, StrALIYUN)
  ELSE IF channel = "ALL" THEN setFactoryProperty(m, OnsChannel, StrALL)
  ELSE IF channel = "LOCAL" THEN setFactoryProperty(m, OnsChannel, StrLOCAL)
  ELSE IF channel = "INNER" THEN setFactoryProperty(m, OnsChannel, StrINNER)
  ELSE Thrown(m)

\* Faulty variant: setSuspendDuration without the zero check.
setSuspendDuration_NoZeroCheck(m, duration) ==
  setFactoryProperty(m, SuspendTimeMillis, to_string(duration))

setSuspendDuration(m, duration) ==
  IF IsZero(duration) THEN Returned(m)
  ELSE setFactoryProperty(m, SuspendTimeMillis, to_string(duration))

----------------------------------------------------------------------------
\* Getters.
\* Faulty variant: getProducerId that consults ProducerId before GroupId.
getProducerId_SpecificKeyFirst(m) ==
  IF HasProperty(m, ProducerId) THEN m[ProducerId] ELSE getProperty(m, GroupId, EMPTY_STRING)

getProducerId(m) ==
  IF HasProperty(m, GroupId) THEN m[GroupId] ELSE getProperty(m, ProducerId, EMPTY_STRING)

getConsumerId(m) ==
  IF HasProperty(m, GroupId) THEN m[GroupId] ELSE getProperty(m, ConsumerId, EMPTY_STRING)

getGroupId(m) == getProperty(m, GroupId, EMPTY_STRING)

getMessageModel(m) == getProperty(m, MessageModel, EMPTY_STRING)

ZeroMillis == I64(FALSE, 0, 0)

\* Faulty variant: getSendMsgTimeout that reads the SuspendTimeMillis key.
getSendMsgTimeout_WrongKey(m) ==
  IF HasProperty(m, SuspendTimeMillis) /\ SimpleAtoi(m[SuspendTimeMillis]).ok
  THEN FromInt32(SimpleAtoi(m[SuspendTimeMillis]).value)
  ELSE ZeroMillis

getSendMsgTimeout(m) ==
  IF HasProperty(m, SendMsgTimeoutMillis) /\ SimpleAtoi(m[SendMsgTimeoutMillis]).ok
  THEN FromInt32(SimpleAtoi(m[SendMsgTimeoutMillis]).value)
  ELSE ZeroMillis

getSuspendTimeMillis(m) ==
  IF HasProperty(m, SuspendTimeMillis) /\ SimpleAtoi(m[SuspendTimeMillis]).ok
  THEN FromInt32(SimpleAtoi(m[SuspendTimeMillis]).value)
  ELSE ZeroMillis

\* Faulty variant: getOnsChannel without the LOCAL branch.
getOnsChannel_NoLocal(m) ==
  LET value == getProperty(m, OnsChannel, StrALIYUN)
  IN IF StrCLOUD = value THEN "CLOUD"
     ELSE IF StrALIYUN = value THEN "ALIYUN"
     ELSE IF StrALL = value THEN "ALL"
     ELSE IF StrINNER = value THEN "INNER"
     ELSE "ALIYUN"

getOnsChannel(m) ==
  LET value == getProperty(m, OnsChannel, StrALIYUN)
  IN IF StrCLOUD = value THEN "CLOUD"
     ELSE IF StrALIYUN = value THEN "ALIYUN"
     ELSE IF StrALL = value THEN "ALL"
     ELSE IF StrLOCAL = value THEN "LOCAL"
     ELSE IF StrINNER = value THEN "INNER"
     ELSE "ALIYUN"

getChannel(m) == getProperty(m, OnsChannel, DEFAULT_CHANNEL)

getNameSrvAddr(m) == getProperty(m, NAMESRV_ADDR, EMPTY_STRING)

getAccessKey(m) == getProperty(m, AccessKey, EMPTY_STRING)

getSecretKey(m) == getProperty(m, SecretKey, EMPTY_STRING)

getOnsTraceSwitch(m) == StrTrue = getProperty(m, OnsTraceSwitch, StrTrue)

\* Faulty variant: operator bool that is content with either credential.
OperatorBool_EitherCredential(m) ==
  CASE getOnsChannel(m) = "ALIYUN" ->
         getAccessKey(m) # EMPTY_STRING \/ getSecretKey(m) # EMPTY_STRING
    [] OTHER -> TRUE

\* ONSFactoryProperty::operator bool
OperatorBool(m) ==
  CASE getOnsChannel(m) = "ALIYUN" ->
         getAccessKey(m) # EMPTY_STRING /\ getSecretKey(m) # EMPTY_STRING
    [] OTHER -> TRUE

----------------------------------------------------------------------------
\* Construction: setDefaults, then loadConfigFile.

\* Run the call next on the store of r unless an exception is already
\* propagating.
setDefaults(m) ==
  LET r1 == setMessageModel(m, "CLUSTERING")
      r2 == IF r1.threw THEN r1 ELSE setSendMsgTimeout(r1.map, SecondsToMillis(3))
      r3 == IF r2.threw THEN r2 ELSE setSuspendDuration(r2.map, SecondsToMillis(3))
      r4 == IF r3.threw THEN r3 ELSE setFactoryProperty(r3.map, MaxMsgCacheSize, Str1000)
  IN IF r4.threw THEN r4 ELSE withTraceFeature(r4.map, "ON")

\* What the constructor finds on the machine: whether MixAll::homeDirectory
\* succeeds, whether <home>/ons/credential exists, is a regular file, opens,
\* parses as a JSON object, and the fields of that object.  A field is
\* [kind, s]: a JSON string with text s, or a value of another kind.
JsonString(s) == [kind |-> "string", s |-> s]
JsonNumber == [kind |-> "number", s |-> EMPTY_STRING]

\* google::protobuf::Value::string_value(): the text of a string value, the
\* empty string for a value of any other kind.
string_value(v) == IF v.kind = "string" THEN v.s ELSE EMPTY_STRING

loadField(r, fields, key) ==
  IF r.threw THEN r
  ELSE IF key \in DOMAIN fields
       THEN setFactoryProperty(r.map, key, string_value(fields[key]))
       ELSE r

\* Faulty variant: loadConfigFile that does not check the status of the JSON parse.
loadConfigFile_NoParseCheck(m, env) ==
  IF ~env.home THEN Returned(m)
  ELSE IF ~env.exists \/ ~env.regular THEN Returned(m)
  ELSE IF ~env.opens THEN Returned(m)
  ELSE loadField(loadField(loadField(loadField(Returned(m),
         env.fields, AccessKey), env.fields, SecretKey), env.fields, NAMESRV_ADDR),
         env.fields, GroupId)

loadConfigFile(m, env) ==
  IF ~env.home THEN Returned(m)
  ELSE IF ~env.exists \/ ~env.regular THEN Returned(m)
  ELSE IF ~env.opens THEN Returned(m)
  ELSE IF ~env.parses THEN Returned(m)
  ELSE loadField(loadField(loadField(loadField(Returned(m),
         env.fields, AccessKey), env.fields, SecretKey), env.fields, NAMESRV_ADDR),
         env.fields, GroupId)

\* ONSFactoryProperty::ONSFactoryProperty()
Constructor(m, env) ==
  LET r == setDefaults(m)
  IN IF r.threw THEN r ELSE loadConfigFile(r.map, env)

----------------------------------------------------------------------------
\* The inputs the callers and the machine supply.
StrAk1 == <<"a","k","1">>
StrSk1 == <<"s","k","1">>
StrG1 == <<"g","1">>
StrBogus == <<"B","O","G","U","S">>
StrNotNumber == <<"1","2","x">>
StrSpacedNumber == <<" ","+","4","2"," ">>

RawKeys == {MessageModel, AccessKey, SecretKey, OnsChannel, GroupId, ProducerId,
            ConsumerId, SuspendTimeMillis}
RawValues == {EMPTY_STRING, CLUSTERING, StrLOCAL, StrG1}

\* 0, 3000, -5, 2^31-1, 2^31, -2^31, -2^31-1 milliseconds.
Durations == {I64(FALSE, 0, 0), I64(FALSE, 0, 3000), I64(TRUE, 0, 5),
              I64(FALSE, 2147, 483647), I64(FALSE, 2147, 483648),
              I64(TRUE, 2147, 483648), I64(TRUE, 2147, 483649)}
Ints == {0, -1, Int32Min}

BulkMaps == {EmptyMap,
             (MessageModel :> StrBogus) @@ (AccessKey :> EMPTY_STRING),
             (OnsChannel :> StrBogus) @@ (SecretKey :> StrSk1) @@ (ProducerId :> StrAk1),
             (SendMsgTimeoutMillis :> StrSpacedNumber) @@ (SuspendTimeMillis :> StrNotNumber)
               @@ (OnsChannel :> StrALL)}

Env(home, exists, regular, opens, parses, fields) ==
  [home |-> home, exists |-> exists, regular |-> regular, opens |-> opens,
   parses |-> parses, fields |-> fields]

EmptyAccessKeyFile == (AccessKey :> JsonString(EMPTY_STRING))

BootstrapEnvs ==
  { Env(FALSE, TRUE, TRUE, TRUE, TRUE, EmptyAccessKeyFile),
    Env(TRUE, FALSE, FALSE, TRUE, TRUE, EmptyAccessKeyFile),
    Env(TRUE, TRUE, FALSE, TRUE, TRUE, EmptyAccessKeyFile),
    Env(TRUE, TRUE, TRUE, FALSE, TRUE, EmptyAccessKeyFile),
    Env(TRUE, TRUE, TRUE, TRUE, FALSE, EmptyAccessKeyFile),
    Env(TRUE, TRUE, TRUE, TRUE, TRUE, EmptyMap),
    Env(TRUE, TRUE, TRUE, TRUE, TRUE,
        (AccessKey :> JsonString(StrAk1)) @@ (GroupId :> JsonString(StrG1))),
    Env(TRUE, TRUE, TRUE, TRUE, TRUE, EmptyAccessKeyFile),
    Env(TRUE, TRUE, TRUE, TRUE, TRUE,
        (AccessKey :> JsonString(StrAk1)) @@ (SecretKey :> JsonNumber)),
    Env(TRUE, TRUE, TRUE, TRUE, TRUE,
        (SecretKey :> JsonString(StrSk1)) @@ (NAMESRV_ADDR :> JsonString(EMPTY_STRING))
          @@ (LogPath :> JsonString(StrG1))) }

----------------------------------------------------------------------------
\* The state machine.  pc is "new" before the constructor runs, "ready" once
\* it has returned and "failed" when it threw (there is then no object to
\* call).  lastCall is the latest call as its caller saw it: the operation,
\* its arguments (key also holds the variant passed to a typed setter of an
\* enum or a flag) and whether an exception propagated.
NoEnv == Env(FALSE, FALSE, FALSE, FALSE, FALSE, EmptyMap)

CallRecord(op, key, value, duration, env, threw) ==
  [op |-> op, key |-> key, value |-> value, duration |-> duration, env |-> env,
   threw |-> threw]

Init ==
  /\ property_map_ = EmptyMap
  /\ pc = "new"
  /\ lastCall = CallRecord("none", "", EMPTY_STRING, ZeroMillis, NoEnv, FALSE)
  /\ nops = 0

Construct ==
  /\ pc = "new"
  /\ \E env \in BootstrapEnvs :
       LET r == Constructor(property_map_, env)
       IN /\ property_map_' = r.map
          /\ pc' = IF r.threw THEN "failed" ELSE "ready"
          /\ lastCall' = CallRecord("ONSFactoryProperty", "", EMPTY_STRING, ZeroMillis,
                                    env, r.threw)
  /\ UNCHANGED nops

\* A call on the constructed object with outcome r.
Call(op, key, value, duration, r) ==
  /\ pc = "ready"
  /\ nops < MaxOps
  /\ property_map_' = r.map
  /\ lastCall' = CallRecord(op, key, value, duration, NoEnv, r.threw)
  /\ nops' = nops + 1
  /\ UNCHANGED pc

CallSetFactoryProperty ==
  \E key \in RawKeys, value \in RawValues :
    Call("setFactoryProperty", key, value, ZeroMillis,
         setFactoryProperty(property_map_, key, value))

CallSetFactoryProperties ==
  \E factory_properties \in BulkMaps :
    Call("setFactoryProperties", "", EMPTY_STRING, ZeroMillis,
         setFactoryProperties(property_map_, factory_properties))

CallSetMessageModel ==
  \E message_model \in MessageModels \cup {"INVALID"} :
    Call("setMessageModel", message_model, EMPTY_STRING, ZeroMillis,
         setMessageModel(property_map_, message_model))

CallSetOnsChannel ==
  \E channel \in ONSChannels \cup {"INVALID"} :
    Call("setOnsChannel", channel, EMPTY_STRING, ZeroMillis,
         setOnsChannel(property_map_, channel))

CallSetSendMsgTimeoutInt ==
  \E value \in Ints :
    Call("setSendMsgTimeoutInt", "", EMPTY_STRING, FromInt32(value),
         setSendMsgTimeoutInt(property_map_, value))

CallSetSendMsgTimeout ==
  \E timeout \in Durations :
    Call("setSendMsgTimeout", "", EMPTY_STRING, timeout,
         setSendMsgTimeout(property_map_, timeout))

CallSetSuspendDuration ==
  \E duration \in Durations :
    Call("setSuspendDuration", "", EMPTY_STRING, duration,
         setSuspendDuration(property_map_, duration))

CallSetSendMsgRetryTimes ==
  \E value \in Ints :
    Call("setSendMsgRetryTimes", "", EMPTY_STRING, FromInt32(value),
         setSendMsgRetryTimes(property_map_, value))

CallSetMaxMsgCacheSize ==
  \E value \in Ints :
    Call("setMaxMsgCacheSize", "", EMPTY_STRING, FromInt32(value),
         setMaxMsgCacheSize(property_map_, value))

CallWithTraceFeature ==
  \E trace_flag \in Traces \cup {"INVALID"} :
    Call("withTraceFeature", trace_flag, EMPTY_STRING, ZeroMillis,
         withTraceFeature(property_map_, trace_flag))

CallSetOnsTraceSwitch ==
  \E should_trace \in BOOLEAN :
    Call("setOnsTraceSwitch", IF should_trace THEN "true" ELSE "false", EMPTY_STRING,
         ZeroMillis, setOnsTraceSwitch(property_map_, should_trace))

Next ==
  \/ Construct
  \/ CallSetFactoryProperties
  \/ CallSetFactoryProperty
  \/ CallSetMessageModel
  \/ CallSetOnsChannel
  \/ CallSetSendMsgTimeoutInt
  \/ CallSetSendMsgTimeout
  \/ CallSetSuspendDuration
  \/ CallSetSendMsgRetryTimes
  \/ CallSetMaxMsgCacheSize
  \/ CallWithTraceFeature
  \/ CallSetOnsTraceSwitch

Spec == Init /\ [][Next]_vars

----------------------------------------------------------------------------
\* Vocabulary of the properties below.
MessageModelLiterals == {CLUSTERING, BROADCASTING}
ChannelLiterals == {StrCLOUD, StrALIYUN, StrALL, StrLOCAL, StrINNER}
Str3000 == <<"3","0","0","0">>

\* The entries of m other than key are those of n.
SameExcept(m, n, key) ==
  /\ DOMAIN m \ {key} = DOMAIN n \ {key}
  /\ \A k \in DOMAIN m \ {key} : m[k] = n[k]

\* The rules of validate's three keys hold of the store m.
ValidatedRulesHold(m) ==
  /\ (MessageModel \in DOMAIN m => m[MessageModel] \in MessageModelLiterals)
  /\ (AccessKey \in DOMAIN m => m[AccessKey] # EMPTY_STRING)
  /\ (SecretKey \in DOMAIN m => m[SecretKey] # EMPTY_STRING)

\* ... and the rule of OnsChannel as well.
KnownKeyRulesHold(m) ==
  /\ ValidatedRulesHold(m)
  /\ (OnsChannel \in DOMAIN m => m[OnsChannel] \in ChannelLiterals)

\* The count d fits a signed 32-bit integer.
InInt32Range(d) ==
  \/ d.hi < Int32Max \div Limb
  \/ d.hi = Int32Max \div Limb /\ d.lo <= (Int32Max % Limb) + (IF d.neg THEN 1 ELSE 0)

----------------------------------------------------------------------------
\* C1 (as claimed): on a constructed object the store never holds a value
\* that breaks the rule of MessageModel, AccessKey, SecretKey or OnsChannel,
\* whatever writes were made, the bulk replace included.
C1_StoreNeverViolatesKnownRules == pc = "ready" => KnownKeyRulesHold(property_map_)

\* C1 (amended): construction and every call other than the bulk replace
\* setFactoryProperties keep the rules of MessageModel, AccessKey and
\* SecretKey, and a setOnsChannel that returns leaves one of the five
\* channel literals under OnsChannel.
C1_ValidatedWritesKeepRules ==
  [][ (pc' = "ready" /\ lastCall'.op # "setFactoryProperties"
         /\ (pc = "ready" => ValidatedRulesHold(property_map_)))
      => /\ ValidatedRulesHold(property_map_')
         /\ (lastCall'.op = "setOnsChannel" /\ ~lastCall'.threw
               => /\ OnsChannel \in DOMAIN property_map_'
                  /\ property_map_'[OnsChannel] \in ChannelLiterals) ]_vars

\* C1 witness: a raw write of a MessageModel that is no literal was refused
\* and the store still holds the seeded CLUSTERING.
C1_Witness ==
  /\ pc = "ready"
  /\ lastCall.op = "setFactoryProperty" /\ lastCall.key = MessageModel
  /\ lastCall.value \notin MessageModelLiterals /\ lastCall.threw
  /\ MessageModel \in DOMAIN property_map_ /\ property_map_[MessageModel] = CLUSTERING

\* C2 (as claimed): a raw write of a value that is none of the key's
\* literals, for MessageModel and for OnsChannel, throws and the value is
\* not stored.
C2_InvalidEnumLiteralRejected ==
  (/\ lastCall.op = "setFactoryProperty"
   /\ \/ lastCall.key = MessageModel /\ lastCall.value \notin MessageModelLiterals
      \/ lastCall.key = OnsChannel /\ lastCall.value \notin ChannelLiterals)
  => /\ lastCall.threw
     /\ ~(lastCall.key \in DOMAIN property_map_
           /\ property_map_[lastCall.key] = lastCall.value)

\* C3: a setFactoryProperty(key, value) that validate refuses throws and
\* leaves the whole store as it was; one that validate accepts returns, the
\* entry of key is value and every other entry is as it was.
C3_ValidatedWriteIsAtomic ==
  [][ lastCall'.op = "setFactoryProperty"
      => IF ~validate(lastCall'.key, lastCall'.value)
         THEN lastCall'.threw /\ property_map_' = property_map_
         ELSE /\ ~lastCall'.threw
              /\ lastCall'.key \in DOMAIN property_map_'
              /\ property_map_'[lastCall'.key] = lastCall'.value
              /\ SameExcept(property_map_', property_map_, lastCall'.key) ]_vars

\* C3 witness: an empty AccessKey was refused while an AccessKey is stored.
C3_Witness ==
  /\ lastCall.op = "setFactoryProperty" /\ lastCall.key = AccessKey
  /\ lastCall.value = EMPTY_STRING /\ lastCall.threw
  /\ AccessKey \in DOMAIN property_map_

\* The getter of a credential key.
CredentialGetter(m, key) == IF key = AccessKey THEN getAccessKey(m) ELSE getSecretKey(m)

\* C4: setFactoryProperty of AccessKey or SecretKey throws exactly when the
\* value is empty; after a non-empty write the key's getter returns the
\* value, and it keeps returning what it returned across every call that
\* does not write the key.
C4_CredentialWrites ==
  [][ \A key \in {AccessKey, SecretKey} :
        /\ (lastCall'.op = "setFactoryProperty" /\ lastCall'.key = key)
             => /\ lastCall'.threw <=> lastCall'.value = EMPTY_STRING
                /\ lastCall'.value # EMPTY_STRING
                     => CredentialGetter(property_map_', key) = lastCall'.value
        /\ (/\ pc = "ready"
            /\ lastCall'.op # "setFactoryProperties"
            /\ ~(lastCall'.op = "setFactoryProperty" /\ lastCall'.key = key))
             => CredentialGetter(property_map_', key) = CredentialGetter(property_map_, key) ]_vars

\* C4 witness: SecretKey was written with a non-empty value and reads back.
C4_Witness ==
  /\ lastCall.op = "setFactoryProperty" /\ lastCall.key = SecretKey
  /\ lastCall.value = StrG1 /\ ~lastCall.threw
  /\ getSecretKey(property_map_) = StrG1

\* The key is absent from m or holds the empty string.
Missing(m, key) == key \notin DOMAIN m \/ m[key] = EMPTY_STRING

\* C5: operator bool is false exactly when getOnsChannel() is ALIYUN and
\* AccessKey or SecretKey is absent or empty.
C5_BoolConversion ==
  pc = "ready"
  => (OperatorBool(property_map_) <=>
        ~(/\ getOnsChannel(property_map_) = "ALIYUN"
          /\ (Missing(property_map_, AccessKey) \/ Missing(property_map_, SecretKey))))

\* C5 witness: the channel is ALIYUN, AccessKey is set, SecretKey is not,
\* and the conversion is false.
C5_Witness ==
  /\ pc = "ready"
  /\ getOnsChannel(property_map_) = "ALIYUN"
  /\ ~Missing(property_map_, AccessKey) /\ Missing(property_map_, SecretKey)
  /\ ~OperatorBool(property_map_)

\* C6: with GroupId in the store getProducerId() and getConsumerId() return
\* its value; without it they return ProducerId, ConsumerId, or the empty
\* string when that is absent too.
C6_GroupIdFirst ==
  pc = "ready"
  => IF GroupId \in DOMAIN property_map_
     THEN /\ getProducerId(property_map_) = property_map_[GroupId]
          /\ getConsumerId(property_map_) = property_map_[GroupId]
     ELSE /\ getProducerId(property_map_) =
               (IF ProducerId \in DOMAIN property_map_ THEN property_map_[ProducerId]
                ELSE EMPTY_STRING)
          /\ getConsumerId(property_map_) =
               (IF ConsumerId \in DOMAIN property_map_ THEN property_map_[ConsumerId]
                ELSE EMPTY_STRING)

\* C6 witness: GroupId was written after a different ProducerId.
C6_Witness ==
  /\ lastCall.op = "setFactoryProperty" /\ lastCall.key = GroupId /\ ~lastCall.threw
  /\ ProducerId \in DOMAIN property_map_
  /\ property_map_[ProducerId] # property_map_[GroupId]
  /\ getProducerId(property_map_) = property_map_[GroupId]

\* The store setDefaults seeds.
SeededDefaults ==
  (MessageModel :> CLUSTERING) @@ (SendMsgTimeoutMillis :> Str3000)
    @@ (SuspendTimeMillis :> Str3000) @@ (MaxMsgCacheSize :> Str1000)
    @@ (OnsTraceSwitch :> StrTrue)

\* The fields the bootstrap load copies.
BootstrapFields == {AccessKey, SecretKey, NAMESRV_ADDR, GroupId}

\* The file of env cannot be had: no home directory, no regular file there,
\* the file does not open, or its text is no JSON object.
Unavailable(env) ==
  ~env.home \/ ~env.exists \/ ~env.regular \/ ~env.opens \/ ~env.parses

\* C7: the constructor throws exactly when the file is available and holds
\* an AccessKey or SecretKey whose string value is empty (NAMESRV_ADDR and
\* GroupId have no rule to fail); with the file unavailable it returns with
\* the store at the seeded defaults; when it returns with the file available
\* the store is the seeded defaults plus the string values of those of the
\* four fields that the file holds.
C7_BootstrapLoad ==
  lastCall.op = "ONSFactoryProperty"
  => LET env == lastCall.env
         present == BootstrapFields \cap DOMAIN env.fields
     IN /\ lastCall.threw <=>
             (/\ ~Unavailable(env)
              /\ \E key \in {AccessKey, SecretKey} \cap DOMAIN env.fields :
                    string_value(env.fields[key]) = EMPTY_STRING)
        /\ Unavailable(env) => property_map_ = SeededDefaults
        /\ (~Unavailable(env) /\ ~lastCall.threw)
             => /\ DOMAIN property_map_ = DOMAIN SeededDefaults \cup present
                /\ \A key \in present :
                     property_map_[key] = string_value(env.fields[key])
                /\ \A key \in DOMAIN SeededDefaults :
                     property_map_[key] = SeededDefaults[key]

\* C7 witness: the text of the file is no JSON object and the constructor
\* returned.
C7_Witness ==
  /\ lastCall.op = "ONSFactoryProperty" /\ pc = "ready"
  /\ lastCall.env.home /\ lastCall.env.exists /\ lastCall.env.regular
  /\ lastCall.env.opens /\ ~lastCall.env.parses
  /\ property_map_ = SeededDefaults

\* C8: setSuspendDuration of a zero duration returns with the store, and so
\* getSuspendTimeMillis(), as before; of a non-zero duration it makes the
\* SuspendTimeMillis entry the decimal text of the millisecond count and
\* leaves every other entry as it was.
C8_ZeroSuspendDurationIsSkipped ==
  [][ lastCall'.op = "setSuspendDuration"
      => /\ ~lastCall'.threw
         /\ IF lastCall'.duration.hi = 0 /\ lastCall'.duration.lo = 0
            THEN /\ property_map_' = property_map_
                 /\ getSuspendTimeMillis(property_map_')
                      = getSuspendTimeMillis(property_map_)
            ELSE /\ SuspendTimeMillis \in DOMAIN property_map_'
                 /\ property_map_'[SuspendTimeMillis] = to_string(lastCall'.duration)
                 /\ SameExcept(property_map_', property_map_, SuspendTimeMillis) ]_vars

\* C8 witness: a zero duration was passed and the seeded 3000 is still there.
C8_Witness ==
  /\ lastCall.op = "setSuspendDuration"
  /\ lastCall.duration = ZeroMillis
  /\ SuspendTimeMillis \in DOMAIN property_map_
  /\ property_map_[SuspendTimeMillis] = Str3000
  /\ getSuspendTimeMillis(property_map_) = I64(FALSE, 0, 3000)

\* The variant a channel literal stands for.
ChannelOfLiteral(value) ==
  CASE value = StrCLOUD -> "CLOUD" [] value = StrALIYUN -> "ALIYUN"
    [] value = StrALL -> "ALL" [] value = StrLOCAL -> "LOCAL"
    [] value = StrINNER -> "INNER"

\* getOnsChannel() is lenient: ALIYUN for an absent or unknown stored
\* value, else the variant of the stored literal.
ChannelGetterIsLenient(m) ==
  getOnsChannel(m) =
    (IF OnsChannel \in DOMAIN m /\ m[OnsChannel] \in ChannelLiterals
     THEN ChannelOfLiteral(m[OnsChannel]) ELSE "ALIYUN")

\* C9 (as claimed): both enum getters are lenient: getOnsChannel() as above,
\* and getMessageModel() gives CLUSTERING for an absent or unknown stored
\* value, else the stored literal.
C9_BothEnumGettersLenient ==
  pc = "ready"
  => /\ ChannelGetterIsLenient(property_map_)
     /\ getMessageModel(property_map_) =
          (IF MessageModel \in DOMAIN property_map_
               /\ property_map_[MessageModel] \in MessageModelLiterals
           THEN property_map_[MessageModel] ELSE CLUSTERING)

\* C9 (amended): getOnsChannel() is lenient; getMessageModel() is not: it
\* returns the stored string as it is, and the empty string when the key is
\* absent.  A variant set by setOnsChannel or setMessageModel reads back.
C9_ChannelLenientModelVerbatim ==
  pc = "ready"
  => /\ ChannelGetterIsLenient(property_map_)
     /\ getMessageModel(property_map_) =
          (IF MessageModel \in DOMAIN property_map_ THEN property_map_[MessageModel]
           ELSE EMPTY_STRING)
     /\ (lastCall.op = "setOnsChannel" /\ ~lastCall.threw
           => getOnsChannel(property_map_) = lastCall.key)
     /\ (lastCall.op = "setMessageModel" /\ lastCall.key \in MessageModels
           => getMessageModel(property_map_) =
                (IF lastCall.key = "CLUSTERING" THEN CLUSTERING ELSE BROADCASTING))

\* C9 witness: a bulk replace stored an unknown channel and no MessageModel;
\* the channel reads as ALIYUN and the model as the empty string.
C9_Witness ==
  /\ pc = "ready"
  /\ OnsChannel \in DOMAIN property_map_ /\ property_map_[OnsChannel] = StrBogus
  /\ getOnsChannel(property_map_) = "ALIYUN"
  /\ MessageModel \notin DOMAIN property_map_
  /\ getMessageModel(property_map_) = EMPTY_STRING

\* The text holds a character that is no digit, sign or white space.
HasForeignChar(text) ==
  \E i \in 1..Len(text) : ~(IsDigit(text[i]) \/ IsSpace(text[i]) \/ text[i] \in {"+", "-"})

\* What a duration getter must give for the stored text of key: zero when
\* the key is absent or its text is empty or holds a foreign character.
ZeroWhenUnparsable(m, key, got) ==
  (key \notin DOMAIN m \/ m[key] = EMPTY_STRING \/ HasForeignChar(m[key]))
    => got = ZeroMillis

\* C10: getSendMsgTimeout() and getSuspendTimeMillis() give zero for an
\* absent key and for a text that is no number; a count d written by
\* setSendMsgTimeout, or by setSuspendDuration when d is not zero, reads
\* back as d when -2^31 <= d <= 2^31-1 and as zero otherwise.
C10_DurationReadBack ==
  pc = "ready"
  => /\ ZeroWhenUnparsable(property_map_, SendMsgTimeoutMillis,
                           getSendMsgTimeout(property_map_))
     /\ ZeroWhenUnparsable(property_map_, SuspendTimeMillis,
                           getSuspendTimeMillis(property_map_))
     /\ lastCall.op = "setSendMsgTimeout"
          => getSendMsgTimeout(property_map_) =
               (IF InInt32Range(lastCall.duration) THEN lastCall.duration ELSE ZeroMillis)
     /\ (lastCall.op = "setSuspendDuration" /\ lastCall.duration # ZeroMillis)
          => getSuspendTimeMillis(property_map_) =
               (IF InInt32Range(lastCall.duration) THEN lastCall.duration ELSE ZeroMillis)

\* C10 witness: 2^31 milliseconds were written, one more than fits, and the
\* getter gives zero.
C10_Witness ==
  /\ lastCall.op = "setSendMsgTimeout"
  /\ lastCall.duration = I64(FALSE, 2147, 483648)
  /\ property_map_[SendMsgTimeoutMillis] = <<"2","1","4","7","4","8","3","6","4","8">>
  /\ getSendMsgTimeout(property_map_) = ZeroMillis

====
